---- MODULE Spec2Model ----
(***************************************************************************)
(* Model of src/src/translation-assistant.js: suggested translations for   *)
(* strings with embedded math, graphie and widget substrings.              *)
(*                                                                         *)
(* A string is a sequence of tokens.  Each token stands for a fixed piece  *)
(* of text:                                                                *)
(*   "$"         the math delimiter $                                      *)
(*   "x"         a letter of natural-language text                         *)
(*   " "         a space                                                   *)
(*   "PARA"      LINE_BREAK, the two line feeds "\n\n"                     *)
(*   "**"        the markdown bold marker                                  *)
(*   "sin"       \sin           "sen"   \operatorname{sen}                 *)
(*   "text"      \text                                                     *)
(*   "g1","g2"   two complete graphie strings ![](url)                     *)
(*   "w1","w2"   two complete widget strings [[(snowman) name]]            *)
(*   "__MATH__", "__GRAPHIE__", "__WIDGET__"   the placeholder texts       *)
(*   "undefined" the text JavaScript substitutes for an undefined value    *)
(* The regular expressions of the source are modelled on these tokens.     *)
(* Strings with a backslash-escaped dollar, a lone line feed or a lone     *)
(* asterisk are outside the alphabet.                                      *)
(***************************************************************************)
EXTENDS Integers, Sequences, FiniteSets, TLC

VARIABLES
    pc,                 \* which call has been made
    str,                \* normalizeString: its argument
    normalStr,          \* normalizeString(str)
    renormalStr,        \* normalizeString(normalizeString(str))
    englishStr,         \* createTemplate / populateTemplate: English string
    translatedStr,      \* createTemplate: translated string
    lang,               \* ka_locale
    template,           \* createTemplate's return value
    populated,          \* populateTemplate's outcome
    translationPairs,   \* suggest: reference pairs
    items,              \* suggest / group: items
    getEnglishStr,      \* suggest / group: accessor
    groups,             \* group's return value
    suggestions         \* suggest's outcome

vars == <<pc, str, normalStr, renormalStr, englishStr, translatedStr, lang,
          template, populated, translationPairs, items, getEnglishStr,
          groups, suggestions>>

----------------------------------------------------------------------------
(* Bounds of the checked inputs *)

MaxNormLen == 5

\* every token sequence over alphabet S of length at most n
BoundedSeq(S, n) == UNION {[1..k -> S] : k \in 0..n}

GraphieTokens == {"g1", "g2"}
WidgetTokens == {"w1", "w2"}

----------------------------------------------------------------------------
(* Regular expressions *)

LINE_BREAK == "PARA"

\* least j >= i with s[j] = tok, 0 when there is none
RECURSIVE IndexFrom(_, _, _)
IndexFrom(s, tok, i) ==
    IF i > Len(s) THEN 0
    ELSE IF s[i] = tok THEN i
    ELSE IndexFrom(s, tok, i + 1)

\* greatest j >= i with s[j] = "**" and no line break in s[i..j], 0 if none
RECURSIVE LastBoldFrom(_, _)
LastBoldFrom(s, i) ==
    IF i > Len(s) \/ s[i] = LINE_BREAK THEN 0
    ELSE LET later == LastBoldFrom(s, i + 1)
         IN  IF later # 0 THEN later
             ELSE IF s[i] = "**" THEN i ELSE 0

\* least j >= i with s[j] not a space (Len(s) + 1 when there is none)
RECURSIVE SkipSpaces(_, _)
SkipSpaces(s, i) ==
    IF i > Len(s) \/ s[i] # " " THEN i ELSE SkipSpaces(s, i + 1)

\* The end of the match of regex that starts at position i of s, 0 if the
\* regex does not match there.
MatchEnd(regex, s, i) ==
    CASE regex = "MATH_REGEX" ->
            \* \$(\\\$|[^\$])+\$ : a dollar, one or more non-dollars, a dollar
            IF s[i] # "$" THEN 0
            ELSE LET j == IndexFrom(s, "$", i + 1)
                 IN  IF j > i + 1 THEN j ELSE 0
      [] regex = "GRAPHIE_REGEX" ->
            IF s[i] \in GraphieTokens THEN i ELSE 0
      [] regex = "WIDGET_REGEX" ->
            IF s[i] \in WidgetTokens THEN i ELSE 0
      [] regex = "MATH_WIDGET" ->
            \* __MATH__[\t ]*__WIDGET__
            IF s[i] # "__MATH__" THEN 0
            ELSE LET j == SkipSpaces(s, i + 1)
                 IN  IF j <= Len(s) /\ s[j] = "__WIDGET__" THEN j ELSE 0
      [] regex = "BOLD_REGEX" ->
            \* \*\*.*\*\* : greedy, and . does not match a line feed
            IF s[i] # "**" THEN 0 ELSE LastBoldFrom(s, i + 1)
      [] regex = "__MATH__" ->
            IF s[i] = "__MATH__" THEN i ELSE 0
      [] regex = "__GRAPHIE__" ->
            IF s[i] = "__GRAPHIE__" THEN i ELSE 0
      [] regex = "__WIDGET__" ->
            IF s[i] = "__WIDGET__" THEN i ELSE 0

\* s.match(regex) || [] for a global regex: the matched substrings in order
RECURSIVE MatchFrom(_, _, _)
MatchFrom(regex, s, i) ==
    IF i > Len(s) THEN <<>>
    ELSE LET e == MatchEnd(regex, s, i)
         IN  IF e = 0 THEN MatchFrom(regex, s, i + 1)
             ELSE <<SubSeq(s, i, e)>> \o MatchFrom(regex, s, e + 1)

Match(regex, s) == MatchFrom(regex, s, 1)

\* s.replace(regex, repl) for a global regex and a fixed replacement
RECURSIVE ReplaceFrom(_, _, _, _)
ReplaceFrom(regex, s, repl, i) ==
    IF i > Len(s) THEN <<>>
    ELSE LET e == MatchEnd(regex, s, i)
         IN  IF e = 0 THEN <<s[i]>> \o ReplaceFrom(regex, s, repl, i + 1)
             ELSE repl \o ReplaceFrom(regex, s, repl, e + 1)

Replace(regex, s, repl) == ReplaceFrom(regex, s, repl, 1)

\* s.replace(BOLD_REGEX, (match) => match.substring(2, match.length - 2))
RECURSIVE StripBoldFrom(_, _)
StripBoldFrom(s, i) ==
    IF i > Len(s) THEN <<>>
    ELSE LET e == MatchEnd("BOLD_REGEX", s, i)
         IN  IF e = 0 THEN <<s[i]>> \o StripBoldFrom(s, i + 1)
             ELSE SubSeq(s, i + 1, e - 1) \o StripBoldFrom(s, e + 1)

StripBold(s) == StripBoldFrom(s, 1)

\* s.split(LINE_BREAK): never empty, "" splits into [""]
RECURSIVE SplitFrom(_, _, _)
SplitFrom(s, i, line) ==
    IF i > Len(s) THEN <<line>>
    ELSE IF s[i] = LINE_BREAK THEN <<line>> \o SplitFrom(s, i + 1, <<>>)
    ELSE SplitFrom(s, i + 1, Append(line, s[i]))

Split(s) == SplitFrom(s, 1, <<>>)

\* lines.join(LINE_BREAK)
RECURSIVE Join(_)
Join(lines) ==
    IF Len(lines) = 0 THEN <<>>
    ELSE IF Len(lines) = 1 THEN lines[1]
    ELSE lines[1] \o <<LINE_BREAK>> \o Join(Tail(lines))

\* line.trim()
RECURSIVE Trim(_)
Trim(line) ==
    IF Len(line) = 0 THEN line
    ELSE IF line[1] = " " THEN Trim(Tail(line))
    ELSE IF line[Len(line)] = " " THEN Trim(SubSeq(line, 1, Len(line) - 1))
    ELSE line

----------------------------------------------------------------------------
(* normalizeString *)

normalizeString(s) ==
    LET a == Replace("MATH_REGEX", s, <<"__MATH__">>)
        b == Replace("GRAPHIE_REGEX", a, <<"__GRAPHIE__">>)
        c == Replace("WIDGET_REGEX", b, <<"__WIDGET__">>)
        d == Replace("MATH_WIDGET", c, <<"__MATH__", " ", "__WIDGET__">>)
        e == StripBold(d)
        lines == Split(e)
    IN  Join([k \in 1..Len(lines) |-> Trim(lines[k])])

----------------------------------------------------------------------------
(* getMapping, createTemplate, translateMath, populateTemplate *)

\* s with every token from replaced by token to
ReplaceToken(s, from, to) ==
    [k \in 1..Len(s) |-> IF s[k] = from THEN to ELSE s[k]]

\* array.indexOf(value): a 0-based index, -1 when absent
RECURSIVE IndexOfFrom(_, _, _)
IndexOfFrom(array, value, k) ==
    IF k > Len(array) THEN -1
    ELSE IF array[k] = value THEN k - 1
    ELSE IndexOfFrom(array, value, k + 1)

indexOf(array, value) == IndexOfFrom(array, value, 1)

\* new Error(message)
Error(message) == [isError |-> TRUE, message |-> message]

\* mutant of MappedOutput: the pt rewrite of sen to sin forgotten
MappedOutputVerbatim(output, lng) == output

\* The translated occurrence compared against the English ones
MappedOutput(output, lng) ==
    IF lng = "pt" THEN ReplaceToken(output, "sen", "sin") ELSE output

\* getMapping: the mapping array (0-based English indices), or the Error
\* thrown at the first translated occurrence without an English match
getMapping(english, translated, lng, findRegex) ==
    LET inputs == Match(findRegex, english)
        outputs == Match(findRegex, translated)
        inputIndex(k) == indexOf(inputs, MappedOutput(outputs[k], lng))
    IN  IF \E k \in 1..Len(outputs) : inputIndex(k) = -1
        THEN CASE findRegex = "MATH_REGEX" -> Error("math doesn't match")
               [] findRegex = "GRAPHIE_REGEX" -> Error("graphies don't match")
               [] findRegex = "WIDGET_REGEX" -> Error("widgets don't match")
        ELSE [isError |-> FALSE,
              mapping |-> [k \in 1..Len(outputs) |-> inputIndex(k)]]

\* createTemplate: a template, or the Error caught from getMapping
createTemplate(english, translated, lng) ==
    LET translatedLines == Split(translated)
        lines == [k \in 1..Len(translatedLines) |->
                    Replace("WIDGET_REGEX",
                        Replace("GRAPHIE_REGEX",
                            Replace("MATH_REGEX", translatedLines[k],
                                    <<"__MATH__">>),
                            <<"__GRAPHIE__">>),
                        <<"__WIDGET__">>)]
        mathMapping == getMapping(english, translated, lng, "MATH_REGEX")
        graphieMapping == getMapping(english, translated, lng, "GRAPHIE_REGEX")
        widgetMapping == getMapping(english, translated, lng, "WIDGET_REGEX")
    IN  IF mathMapping.isError THEN mathMapping
        ELSE IF graphieMapping.isError THEN graphieMapping
        ELSE IF widgetMapping.isError THEN widgetMapping
        ELSE [isError |-> FALSE,
              lines |-> lines,
              mathMapping |-> mathMapping.mapping,
              graphieMapping |-> graphieMapping.mapping,
              widgetMapping |-> widgetMapping.mapping]

\* mutant of translateMath: no language has a transform
translateMathNone(math, lng) == math

translateMath(math, lng) ==
    IF lng = "pt" THEN ReplaceToken(math, "sin", "sen") ELSE math

\* maths.map(translateMath): Array.prototype.map calls its callback with
\* (element, index, array), so translateMath receives the 0-based index as
\* its lang parameter.  The index is written as its decimal string.
MapTranslateMath(maths) ==
    [k \in 1..Len(maths) |-> translateMath(maths[k], ToString(k - 1))]

\* array[mapping[index]] converted to text by String.prototype.replace:
\* "undefined" when an index is out of range
Substitute(array, mapping, index) ==
    IF index + 1 > Len(mapping) THEN <<"undefined">>
    ELSE IF mapping[index + 1] + 1 > Len(array) THEN <<"undefined">>
    ELSE array[mapping[index + 1] + 1]

\* line.replace(/placeholder/g, () => array[mapping[index++]]) from position
\* i on: the new text and the counter after it
RECURSIVE FillFrom(_, _, _, _, _, _)
FillFrom(line, placeholder, array, mapping, index, i) ==
    IF i > Len(line) THEN [out |-> <<>>, index |-> index]
    ELSE IF line[i] = placeholder
    THEN LET rest == FillFrom(line, placeholder, array, mapping, index + 1,
                              i + 1)
         IN  [out |-> Substitute(array, mapping, index) \o rest.out,
              index |-> rest.index]
    ELSE LET rest == FillFrom(line, placeholder, array, mapping, index, i + 1)
         IN  [out |-> <<line[i]>> \o rest.out, index |-> rest.index]

\* The callback of englishLines.map for lines k, k+1, ...: the populated
\* lines, or threw when template.lines[index] is undefined (TypeError).
\* found holds the maths, graphies and widgets of the English string, index
\* the three counters mathIndex, graphieIndex and widgetIndex.
RECURSIVE PopulateFrom(_, _, _, _, _)
PopulateFrom(tmpl, nLines, found, k, index) ==
    IF k > nLines THEN [threw |-> FALSE, lines |-> <<>>]
    ELSE IF k > Len(tmpl.lines) THEN [threw |-> TRUE, lines |-> <<>>]
    ELSE LET m == FillFrom(tmpl.lines[k], "__MATH__", found.maths,
                           tmpl.mathMapping, index.math, 1)
             g == FillFrom(m.out, "__GRAPHIE__", found.graphies,
                           tmpl.graphieMapping, index.graphie, 1)
             w == FillFrom(g.out, "__WIDGET__", found.widgets,
                           tmpl.widgetMapping, index.widget, 1)
             rest == PopulateFrom(tmpl, nLines, found, k + 1,
                        [math |-> m.index, graphie |-> g.index,
                         widget |-> w.index])
         IN  IF rest.threw THEN rest
             ELSE [threw |-> FALSE, lines |-> <<w.out>> \o rest.lines]

\* The body of populateTemplate once maths holds the math substrings to
\* substitute: [threw |-> FALSE, value |-> the suggestion], or threw |-> TRUE
\* when the call ends in a TypeError
PopulateWith(tmpl, english, maths) ==
    LET englishLines == Split(english)
        found == [maths |-> maths,
                  graphies |-> Match("GRAPHIE_REGEX", english),
                  widgets |-> Match("WIDGET_REGEX", english)]
        r == PopulateFrom(tmpl, Len(englishLines), found, 1,
                          [math |-> 0, graphie |-> 0, widget |-> 0])
    IN  IF r.threw THEN [threw |-> TRUE, value |-> <<>>]
        ELSE [threw |-> FALSE, value |-> Join(r.lines)]

populateTemplate(tmpl, english, lng) ==
    PopulateWith(tmpl, english, MapTranslateMath(Match("MATH_REGEX", english)))

----------------------------------------------------------------------------
(* group, autoTranslatePlaceholders, findTranslationPair, suggest *)

\* JavaScript values: null, a string, an item object with an englishStr
Null == [type |-> "null"]
Str(s) == [type |-> "string", value |-> s]
Obj(id, s) == [type |-> "object", id |-> id, englishStr |-> s]

\* mutant of Truthy: only null is falsy
TruthyNonNull(v) == v.type # "null"

\* what if (v) takes for true: null and the empty string are falsy
Truthy(v) == v.type # "null" /\ (v.type = "string" => v.value # <<>>)

\* The two accessors: identity (x => x, the default, items are strings) and
\* item => item.englishStr.  The English string as a token sequence.
EnglishStrOf(accessor, item) ==
    IF accessor = "identity" THEN item.value ELSE item.englishStr

\* the body of items.forEach in group, from item k on
RECURSIVE GroupFrom(_, _, _, _)
GroupFrom(its, accessor, k, stringMatches) ==
    IF k > Len(its) THEN stringMatches
    ELSE LET key == normalizeString(EnglishStrOf(accessor, its[k]))
         IN  GroupFrom(its, accessor, k + 1,
                IF key \in DOMAIN stringMatches
                THEN [stringMatches EXCEPT ![key] = Append(@, its[k])]
                ELSE [j \in DOMAIN stringMatches \cup {key} |->
                        IF j = key THEN <<its[k]>> ELSE stringMatches[j]])

\* mutant of group: a bucket is replaced by the new item, not appended to
RECURSIVE GroupOverwriteFrom(_, _, _, _)
GroupOverwriteFrom(its, accessor, k, stringMatches) ==
    IF k > Len(its) THEN stringMatches
    ELSE LET key == normalizeString(EnglishStrOf(accessor, its[k]))
         IN  GroupOverwriteFrom(its, accessor, k + 1,
                [j \in DOMAIN stringMatches \cup {key} |->
                    IF j = key THEN <<its[k]>> ELSE stringMatches[j]])

groupOverwrite(its, accessor) ==
    GroupOverwriteFrom(its, accessor, 1, [j \in {} |-> <<>>])

\* group: a function from the normalized keys to their buckets
group(its, accessor) ==
    GroupFrom(its, accessor, 1, [j \in {} |-> <<>>])

\* the callback of items.map in autoTranslatePlaceholders
AutoTranslateItem(item, lng, accessor) ==
    LET english == EnglishStrOf(accessor, item)
        normal == normalizeString(english)
    IN  IF normal \in {<<"__MATH__">>, <<"__GRAPHIE__">>, <<"__WIDGET__">>}
        THEN IF normal = <<"__MATH__">>
             THEN IF \E k \in 1..Len(english) : english[k] = "text"
                  THEN <<Str(english), Null>>
                  ELSE <<item, Str(translateMath(english, lng))>>
             ELSE <<item, Str(english)>>
        ELSE <<item, Null>>

autoTranslatePlaceholders(its, lng, accessor) ==
    [k \in 1..Len(its) |-> AutoTranslateItem(its[k], lng, accessor)]

\* findTranslationPair from pair k on: the first pair with both elements
\* truthy, or an Error
RECURSIVE FindPairFrom(_, _)
FindPairFrom(pairs, k) ==
    IF k > Len(pairs) THEN Error("couldn't find translation pair")
    ELSE IF Truthy(pairs[k][1]) /\ Truthy(pairs[k][2])
    THEN [isError |-> FALSE, pair |-> pairs[k]]
    ELSE FindPairFrom(pairs, k + 1)

\* mutant of findTranslationPair: the last pair with both elements truthy
RECURSIVE FindLastPairFrom(_, _)
FindLastPairFrom(pairs, k) ==
    IF k < 1 THEN Error("couldn't find translation pair")
    ELSE IF Truthy(pairs[k][1]) /\ Truthy(pairs[k][2])
    THEN [isError |-> FALSE, pair |-> pairs[k]]
    ELSE FindLastPairFrom(pairs, k - 1)

findLastTranslationPair(pairs) == FindLastPairFrom(pairs, Len(pairs))

findTranslationPair(pairs) == FindPairFrom(pairs, 1)

\* suggest: [kind |-> "list", value |-> the suggestion pairs], or
\* [kind |-> "error"] with the Error's message when createTemplate's Error is
\* returned, or [kind |-> "throw"] when populateTemplate ends in a TypeError
suggest(pairs, its, lng, accessor) ==
    LET found == findTranslationPair(pairs)
        grouped == group(its, accessor)
    IN  IF found.isError \/ Cardinality(DOMAIN grouped) > 1
        THEN [kind |-> "list",
              value |-> autoTranslatePlaceholders(its, lng, accessor),
              message |-> ""]
        ELSE LET tmpl == createTemplate(found.pair[1].value,
                                        found.pair[2].value, lng)
                 filled == [k \in 1..Len(its) |->
                              populateTemplate(tmpl,
                                  EnglishStrOf(accessor, its[k]), lng)]
             IN  IF tmpl.isError
                 THEN [kind |-> "error", value |-> <<>>,
                       message |-> tmpl.message]
                 ELSE IF \E k \in 1..Len(its) : filled[k].threw
                 THEN [kind |-> "throw", value |-> <<>>, message |-> ""]
                 ELSE [kind |-> "list",
                       value |-> [k \in 1..Len(its) |->
                                    <<its[k], Str(filled[k].value)>>],
                       message |-> ""]

----------------------------------------------------------------------------
(* Calls of normalizeString *)

NormAlphabet == {"$", "x", " ", "PARA", "**", "g1", "w1"}

Unused == <<>>

InitNormalize ==
    /\ pc = "start"
    /\ str \in BoundedSeq(NormAlphabet, MaxNormLen)
    /\ normalStr = Unused
    /\ renormalStr = Unused
    /\ englishStr = Unused
    /\ translatedStr = Unused
    /\ lang = "en"
    /\ template = Unused
    /\ populated = Unused
    /\ translationPairs = Unused
    /\ items = Unused
    /\ getEnglishStr = "identity"
    /\ groups = Unused
    /\ suggestions = Unused

\* normalizeString(str)
Normalize ==
    /\ pc = "start"
    /\ normalStr' = normalizeString(str)
    /\ pc' = "normalized"
    /\ UNCHANGED <<str, renormalStr, englishStr, translatedStr, lang, template,
                   populated, translationPairs, items, getEnglishStr, groups,
                   suggestions>>

\* normalizeString(normalizeString(str))
Renormalize ==
    /\ pc = "normalized"
    /\ renormalStr' = normalizeString(normalStr)
    /\ pc' = "renormalized"
    /\ UNCHANGED <<str, normalStr, englishStr, translatedStr, lang, template,
                   populated, translationPairs, items, getEnglishStr, groups,
                   suggestions>>

NextNormalize == Normalize \/ Renormalize

SpecNormalize == InitNormalize /\ [][NextNormalize]_vars

\* C8: normalizeString is idempotent: normalizing a normalized string
\* changes nothing.
C8_NormalizeIdempotent ==
    pc = "renormalized" => renormalStr = normalStr

----------------------------------------------------------------------------
(* Calls of createTemplate and populateTemplate *)

MaxTemplateChunks == 2

Langs == {"pt", "es"}

RECURSIVE Flatten(_)
Flatten(chunks) ==
    IF Len(chunks) = 0 THEN <<>> ELSE chunks[1] \o Flatten(Tail(chunks))

\* the strings made of at most n pieces out of Chunks
ChunkStrings(Chunks, n) == {Flatten(cs) : cs \in BoundedSeq(Chunks, n)}

TemplateChunks ==
    {<<"x">>, <<"PARA">>, <<"$">>, <<"$", "sin", "$">>, <<"$", "sen", "$">>,
     <<"g1">>, <<"g2">>, <<"w1">>}

InitTemplate ==
    /\ pc = "start"
    /\ englishStr \in ChunkStrings(TemplateChunks, MaxTemplateChunks)
    /\ translatedStr \in ChunkStrings(TemplateChunks, MaxTemplateChunks)
    /\ lang \in Langs
    /\ template = Unused
    /\ populated = Unused
    /\ str = Unused
    /\ normalStr = Unused
    /\ renormalStr = Unused
    /\ translationPairs = Unused
    /\ items = Unused
    /\ getEnglishStr = "identity"
    /\ groups = Unused
    /\ suggestions = Unused

\* createTemplate(englishStr, translatedStr, lang)
CreateTemplate ==
    /\ pc = "start"
    /\ template' = createTemplate(englishStr, translatedStr, lang)
    /\ pc' = "created"
    /\ UNCHANGED <<str, normalStr, renormalStr, englishStr, translatedStr,
                   lang, populated, translationPairs, items, getEnglishStr,
                   groups, suggestions>>

\* populateTemplate(template, englishStr, lang) with the template just made
PopulateTemplate ==
    /\ pc = "created"
    /\ ~template.isError
    /\ populated' = populateTemplate(template, englishStr, lang)
    /\ pc' = "populated"
    /\ UNCHANGED <<str, normalStr, renormalStr, englishStr, translatedStr,
                   lang, template, translationPairs, items, getEnglishStr,
                   groups, suggestions>>

NextTemplate == CreateTemplate \/ PopulateTemplate

SpecTemplate == InitTemplate /\ [][NextTemplate]_vars

\* translated with the per-language math transform applied to each of its
\* math substrings
RECURSIVE TranslateMathsFrom(_, _, _)
TranslateMathsFrom(s, lng, i) ==
    IF i > Len(s) THEN <<>>
    ELSE LET e == MatchEnd("MATH_REGEX", s, i)
         IN  IF e = 0 THEN <<s[i]>> \o TranslateMathsFrom(s, lng, i + 1)
             ELSE translateMath(SubSeq(s, i, e), lng)
                  \o TranslateMathsFrom(s, lng, e + 1)

\* C4: round trip: whenever createTemplate(E, T, lang) succeeds,
\* populateTemplate of that template on E gives T, with the math transform
\* of lang applied to the math.
C4_RoundTrip ==
    pc = "populated" =>
        /\ ~populated.threw
        /\ populated.value = TranslateMathsFrom(translatedStr, lang, 1)

\* C5: populateTemplate substitutes the math substrings of the English
\* string after translateMath(math, lang) was applied to each of them.
C5_MathTransformApplied ==
    pc = "populated" =>
        LET maths == Match("MATH_REGEX", englishStr)
        IN  populated =
                PopulateWith(template, englishStr,
                    [k \in 1..Len(maths) |-> translateMath(maths[k], lang)])

\* the occurrences of a kind in translated (rewritten for pt) that equal no
\* occurrence of that kind in english
Unmatched(english, translated, lng, findRegex) ==
    LET inputs == Match(findRegex, english)
        outputs == Match(findRegex, translated)
    IN  {k \in 1..Len(outputs) :
            \A j \in 1..Len(inputs) :
                inputs[j] # (IF lng = "pt"
                             THEN ReplaceToken(outputs[k], "sen", "sin")
                             ELSE outputs[k])}

\* C6: createTemplate returns an Error exactly when the translated string
\* has a math, graphie or widget occurrence whose text (sen rewritten to sin
\* for pt) equals no occurrence of the same kind in the English string.
C6_ErrorIffUnmatched ==
    pc = "created" =>
        (template.isError <=>
            \E findRegex \in {"MATH_REGEX", "GRAPHIE_REGEX", "WIDGET_REGEX"} :
                Unmatched(englishStr, translatedStr, lang, findRegex) # {})

\* C6 witness: a pt translation whose only math is sen, refused because the
\* English string has no math at all, and one accepted by the rewrite
C6_Witness ==
    /\ pc = "created"
    /\ template.isError
    /\ template.message = "math doesn't match"
    /\ lang = "pt"
    /\ translatedStr = <<"$", "sen", "$">>
    /\ englishStr = <<"x">>

----------------------------------------------------------------------------
(* Calls of suggest with reference pairs *)

MaxPairs == 2
MaxItems == 2

Accessors == {"identity", "englishStr"}

\* the items an accessor is used with, one for each English string
ItemsOver(accessor, strings) ==
    IF accessor = "identity" THEN {Str(s) : s \in strings}
    ELSE {Obj(id, s) : id \in {1}, s \in strings}

PairElements == {Null, Str(<<>>), Str(<<"x">>), Str(<<"g1">>)}

SuggestStrings == {<<"x">>, <<"g1">>, <<"$", "sin", "$">>}

InitSuggest ==
    /\ pc = "start"
    /\ translationPairs \in BoundedSeq(PairElements \X PairElements, MaxPairs)
    /\ getEnglishStr \in Accessors
    /\ items \in BoundedSeq(ItemsOver(getEnglishStr, SuggestStrings), MaxItems)
    /\ lang \in Langs
    /\ suggestions = Unused
    /\ groups = Unused
    /\ str = Unused
    /\ normalStr = Unused
    /\ renormalStr = Unused
    /\ englishStr = Unused
    /\ translatedStr = Unused
    /\ template = Unused
    /\ populated = Unused

\* suggest(translationPairs, items, lang, getEnglishStr)
Suggest ==
    /\ pc = "start"
    /\ suggestions' = suggest(translationPairs, items, lang, getEnglishStr)
    /\ pc' = "suggested"
    /\ UNCHANGED <<str, normalStr, renormalStr, englishStr, translatedStr,
                   lang, template, populated, translationPairs, items,
                   getEnglishStr, groups>>

NextSuggest == Suggest

SpecSuggest == InitSuggest /\ [][NextSuggest]_vars

\* a non-empty, non-null string
NonEmpty(v) == v # Null /\ v # Str(<<>>)

\* the positions of the reference pairs with both elements non-empty
Usable(pairs) ==
    {k \in 1..Len(pairs) : NonEmpty(pairs[k][1]) /\ NonEmpty(pairs[k][2])}

\* the normalized group keys of the items
KeysOf(its, accessor) ==
    {normalizeString(EnglishStrOf(accessor, its[k])) : k \in 1..Len(its)}

\* the reference pair: the first usable one
ReferencePair(pairs) ==
    pairs[CHOOSE k \in Usable(pairs) : \A j \in Usable(pairs) : k <= j]

\* C1: without a usable reference pair, or with items of more than one
\* normalized group, suggest returns the auto-translation of all the items,
\* never an Error.
C1_FallbackIsAutoTranslation ==
    (/\ pc = "suggested"
     /\ \/ Usable(translationPairs) = {}
        \/ Cardinality(KeysOf(items, getEnglishStr)) > 1)
    => /\ suggestions.kind = "list"
       /\ suggestions.value =
              autoTranslatePlaceholders(items, lang, getEnglishStr)

\* C1 witness: two groups with a usable reference pair present, one item
\* auto-translated and one not
C1_Witness ==
    /\ pc = "suggested"
    /\ Usable(translationPairs) # {}
    /\ Cardinality(KeysOf(items, getEnglishStr)) > 1
    /\ suggestions.kind = "list"
    /\ Len(suggestions.value) = 2
    /\ suggestions.value[1][2] = Null
    /\ suggestions.value[2][2] # Null

\* C2: with a reference pair and at most one group, an Error of
\* createTemplate on the reference pair is the result of suggest: no
\* suggestion pairs, no auto-translation, no later pair tried.
C2_TemplateErrorIsResult ==
    (/\ pc = "suggested"
     /\ Usable(translationPairs) # {}
     /\ Cardinality(KeysOf(items, getEnglishStr)) <= 1
     /\ createTemplate(ReferencePair(translationPairs)[1].value,
                       ReferencePair(translationPairs)[2].value,
                       lang).isError)
    => /\ suggestions.kind = "error"
       /\ suggestions.value = <<>>
       /\ suggestions.message =
              createTemplate(ReferencePair(translationPairs)[1].value,
                             ReferencePair(translationPairs)[2].value,
                             lang).message

\* C2 witness: the Error is returned although the second pair would build a
\* template and an item is waiting
C2_Witness ==
    /\ pc = "suggested"
    /\ suggestions.kind = "error"
    /\ Len(items) > 0
    /\ Usable(translationPairs) = {1, 2}
    /\ ~createTemplate(translationPairs[2][1].value,
                       translationPairs[2][2].value, lang).isError

\* C3: a list returned by suggest has one pair for each item, in order, and
\* the first component of each pair is the item itself.
C3_PairsCarryItems ==
    (pc = "suggested" /\ suggestions.kind = "list")
    => /\ Len(suggestions.value) = Len(items)
       /\ \A k \in 1..Len(items) : suggestions.value[k][1] = items[k]

\* C10: on the templated path every item normalizes to the normalized
\* English string of the reference pair, and every suggestion is built with
\* a template line and without an out-of-range substitution.
C10_TemplateMatchesItems ==
    (/\ pc = "suggested"
     /\ Usable(translationPairs) # {}
     /\ Cardinality(KeysOf(items, getEnglishStr)) <= 1
     /\ ~createTemplate(ReferencePair(translationPairs)[1].value,
                        ReferencePair(translationPairs)[2].value,
                        lang).isError)
    => /\ suggestions.kind = "list"
       /\ \A k \in 1..Len(items) :
            /\ normalizeString(EnglishStrOf(getEnglishStr, items[k]))
               = normalizeString(ReferencePair(translationPairs)[1].value)
            /\ \A j \in 1..Len(suggestions.value[k][2].value) :
                  suggestions.value[k][2].value[j] # "undefined"

----------------------------------------------------------------------------
(* Calls of suggest without a reference pair *)

MaxFallbackItems == 1
MaxFallbackChunks == 2

FallbackChunks ==
    {<<"x">>, <<" ">>, <<"$", "sin", "$">>, <<"$", "text", "$">>, <<"g1">>,
     <<"w1">>}

InitFallback ==
    /\ pc = "start"
    /\ translationPairs \in {<<>>, <<<<Null, Null>>>>}
    /\ getEnglishStr \in Accessors
    /\ items \in BoundedSeq(
           ItemsOver(getEnglishStr,
                     ChunkStrings(FallbackChunks, MaxFallbackChunks)),
           MaxFallbackItems)
    /\ lang \in Langs
    /\ suggestions = Unused
    /\ groups = Unused
    /\ str = Unused
    /\ normalStr = Unused
    /\ renormalStr = Unused
    /\ englishStr = Unused
    /\ translatedStr = Unused
    /\ template = Unused
    /\ populated = Unused

SpecFallback == InitFallback /\ [][NextSuggest]_vars

\* C9: an item is auto-translated exactly when its normalized English
\* string is one placeholder and, for math, it has no \text; the suggestion
\* is then the English string, with sin written sen for pt when it is math.
C9_AutoTranslation ==
    pc = "suggested" =>
        /\ suggestions.kind = "list"
        /\ Len(suggestions.value) = Len(items)
        /\ \A k \in 1..Len(items) :
             LET english == EnglishStrOf(getEnglishStr, items[k])
                 normal == normalizeString(english)
                 suggestion == suggestions.value[k][2]
                 isMath == normal = <<"__MATH__">>
                 hasText == \E j \in 1..Len(english) : english[j] = "text"
             IN  /\ suggestion # Null <=>
                        \/ isMath /\ ~hasText
                        \/ normal = <<"__GRAPHIE__">>
                        \/ normal = <<"__WIDGET__">>
                 /\ suggestion # Null =>
                        suggestion =
                            Str(IF isMath /\ lang = "pt"
                                THEN ReplaceToken(english, "sin", "sen")
                                ELSE english)

\* C9 witness: for pt a math-only item with sin, a space before it, is
\* suggested with sen
C9_Witness ==
    /\ pc = "suggested"
    /\ lang = "pt"
    /\ Len(items) = 1
    /\ EnglishStrOf(getEnglishStr, items[1]) = <<" ", "$", "sin", "$">>
    /\ suggestions.value[1][2] = Str(<<" ", "$", "sen", "$">>)

----------------------------------------------------------------------------
(* Calls of group *)

MaxGroupItems == 3
MaxGroupChunks == 1

GroupChunks == {<<"x">>, <<" ">>, <<"g1">>, <<"g2">>}

InitGroup ==
    /\ pc = "start"
    /\ getEnglishStr \in Accessors
    /\ items \in BoundedSeq(
           ItemsOver(getEnglishStr,
                     ChunkStrings(GroupChunks, MaxGroupChunks)),
           MaxGroupItems)
    /\ groups = Unused
    /\ translationPairs = Unused
    /\ lang = "en"
    /\ suggestions = Unused
    /\ str = Unused
    /\ normalStr = Unused
    /\ renormalStr = Unused
    /\ englishStr = Unused
    /\ translatedStr = Unused
    /\ template = Unused
    /\ populated = Unused

\* group(items, getEnglishStr)
Group ==
    /\ pc = "start"
    /\ groups' = group(items, getEnglishStr)
    /\ pc' = "grouped"
    /\ UNCHANGED <<str, normalStr, renormalStr, englishStr, translatedStr,
                   lang, template, populated, translationPairs, items,
                   getEnglishStr, suggestions>>

NextGroup == Group

SpecGroup == InitGroup /\ [][NextGroup]_vars

\* the items with a given normalized key, in input order
RECURSIVE WithKey(_, _, _)
WithKey(its, accessor, key) ==
    IF Len(its) = 0 THEN <<>>
    ELSE IF normalizeString(EnglishStrOf(accessor, its[1])) = key
    THEN <<its[1]>> \o WithKey(Tail(its), accessor, key)
    ELSE WithKey(Tail(its), accessor, key)

\* C7: group partitions the items: the buckets are keyed by the normalized
\* English strings, and each bucket holds exactly the items with its key, as
\* often as and in the order in which they occur in the input.
C7_GroupPartitions ==
    pc = "grouped" =>
        /\ DOMAIN groups = KeysOf(items, getEnglishStr)
        /\ \A key \in DOMAIN groups :
              groups[key] = WithKey(items, getEnglishStr, key)

\* C7 witness: three items in two buckets, the larger one holding two
\* different items and not contiguous in the input
C7_Witness ==
    /\ pc = "grouped"
    /\ Len(items) = 3
    /\ Cardinality(DOMAIN groups) = 2
    /\ items[1] # items[3]
    /\ \E key \in DOMAIN groups : groups[key] = <<items[1], items[3]>>

====
